---- MODULE Spec2Model ----
(***************************************************************************)
(* A model of the stream-to-message layer of the node-experiment servers:  *)
(* the growable byte accumulator (DynBuf), the promise wrapper around the  *)
(* socket (TCPConn: soInit / soRead / soWrite), the line framer and echo   *)
(* loop of the TCP echo server, and the HTTP header framer and the         *)
(* length-bounded body reader of the HTTP server.                          *)
(*                                                                         *)
(* A byte is a one-character string ("G", " ", ...); CR, LF and NUL stand  *)
(* for 0x0d, 0x0a and 0x00.  A Buffer is a sequence of bytes.  A DynBuf is *)
(* a record [data, length]: data is the backing Buffer (its Len is the     *)
(* capacity, stale bytes beyond length included), length the live prefix.  *)
(* Every byte modelled is ASCII, for which Buffer.toString() and           *)
(* Buffer.from(string) map a byte to the same character and back.          *)
(*                                                                         *)
(* One action is one synchronous run of JavaScript: an event handler, or   *)
(* the program from one await to the next.  An awaiting program resumes in *)
(* an action of its own once its promise is settled.                       *)
(*                                                                         *)
(* Seven specifications share the variables: SpecBuf (the accumulator      *)
(* under arbitrary pushes and pops), SpecLine (one connection of the echo  *)
(* server), SpecCut (the HTTP cutMessage on one accumulator content),      *)
(* SpecBody (one length-bounded BodyReader over a connection), SpecReq     *)
(* (readerFromReq on one request), SpecHttp (one connection of the HTTP    *)
(* server) and SpecCeil (the HTTP server fed header bytes of real size,    *)
(* around kMaxHeaderLen).                                                  *)
(***************************************************************************)
EXTENDS Integers, Sequences, FiniteSets, TLC

VARIABLES
    buf,        \* the DynBuf of serveClient
    conn,       \* the TCPConn: [err, ended, reader]
    sock,       \* the socket: [paused, ended, errored, destroyed]
    prom,       \* the promise the program last created and awaits
    written,    \* the Buffers handed to socket.write, in order
    pc,         \* where the program is suspended
    out,        \* how the program ended, and what its last call returned
    msg,        \* the HTTPReq that the HTTP cutMessage returned (NoReq: none)
    remain,     \* the remain counter closed over by a length-bounded BodyReader
    given,      \* history: the input a framer or body reader was started on
    returned,   \* history: the non-empty chunks a BodyReader returned, concatenated
    pushed,     \* history: every byte ever given to bufPush, in order
    popped,     \* history: total number of bytes removed by bufPop
    lastOp,     \* history: the last accumulator operation, with its argument
    emitted,    \* history: the chunks of the transport's data events, in order
    got,        \* history: the data chunks the program received from soRead
    obs         \* history: what was observed of the reader slot

vars == <<buf, conn, sock, prom, written, pc, out, msg, remain, given, returned,
          pushed, popped, lastOp, emitted, got, obs>>

bufHist == <<pushed, popped, lastOp>>
connVars == <<conn, sock, prom, written, emitted, got, obs>>
bodyVars == <<msg, remain, given, returned>>
progVars == <<pc, out, msg, remain, given, returned>>

----------------------------------------------------------------------------
(* Bytes and Buffers *)

CR == "CR"
LF == "LF"
NUL == "NUL"
TAB == "TAB"

Min(a, b) == IF a < b THEN a ELSE b
Max(a, b) == IF a < b THEN b ELSE a

\* b.subarray(start, end) / Buffer.from(b.subarray(start, end)), 0-based, end exclusive
Slice(b, start, end) == SubSeq(b, start + 1, end)

\* the concatenation of a sequence of chunks
RECURSIVE Flatten(_)
Flatten(chunks) ==
    IF chunks = <<>> THEN <<>> ELSE Head(chunks) \o Flatten(Tail(chunks))

----------------------------------------------------------------------------
(* DynBuf: bufPush and bufPop *)

\* the capacity floor of bufPush
MinCap == 32

\* const buf: DynBuf = { data: Buffer.alloc(0), length: 0 }
EmptyBuf == [data |-> <<>>, length |-> 0]

\* the live region buf.data.subarray(0, buf.length)
Live(b) == Slice(b.data, 0, b.length)

\* a growth that allocates exactly the bytes needed instead of doubling
GrowCapExact(cap, newLen) == IF cap < newLen THEN newLen ELSE cap

\* let cap = ...; while (cap < newLen) cap *= 2
RECURSIVE GrowCap(_, _)
GrowCap(cap, newLen) == IF cap < newLen THEN GrowCap(cap * 2, newLen) ELSE cap

\* const grown = Buffer.alloc(cap); buf.data.copy(grown, 0, 0)
Grown(old, cap) == old \o [i \in 1..(cap - Len(old)) |-> NUL]

\* data.copy(buf.data, buf.length, 0) overwrites the bytes [length, newLen)
\* of the storage and leaves the others
bufPush(b, d) ==
    LET newLen == b.length + Len(d)
        store  == IF Len(b.data) < newLen
                  THEN Grown(b.data, GrowCap(Max(Len(b.data), MinCap), newLen))
                  ELSE b.data
    IN  [data   |-> SubSeq(store, 1, b.length) \o d
                        \o SubSeq(store, newLen + 1, Len(store)),
         length |-> newLen]

\* a pop that forgets to move the remaining bytes to the front
bufPopNoShift(b, len) == [data |-> b.data, length |-> b.length - len]

\* buf.data.copyWithin(0, len, buf.length); buf.length -= len: the n bytes
\* [len, buf.length) move to the front, the bytes from n on stay as they were
bufPop(b, len) ==
    LET n == Max(0, Min(b.length, Len(b.data)) - len)
    IN  [data   |-> SubSeq(b.data, len + 1, len + n)
                        \o SubSeq(b.data, n + 1, Len(b.data)),
         length |-> b.length - len]

\* no HTTPReq: cutMessage returned null or threw
NoReq == [method |-> <<>>, uri |-> <<>>, version |-> <<>>, headers |-> <<>>]

\* no framer input and no BodyReader
BodyIdle ==
    /\ msg = NoReq
    /\ remain = 0
    /\ given = <<>>
    /\ returned = <<>>

\* the accumulator histories, kept only by the accumulator specification
BufHistIdle ==
    /\ pushed = <<>>
    /\ popped = 0
    /\ lastOp = [op |-> "init", n |-> 0, ops |-> 0]

----------------------------------------------------------------------------
(* TCPConn: soInit, soRead, soWrite *)

\* conn.reader = null; promise ids start at 1
NoPromise == 0

\* Buffer.from("EOF")
EOFMark == <<"E", "O", "F">>

\* what a call returned or threw: kind is "none", "msg", "req", "chunk",
\* "returned" or "threw"; code is the HTTPError's code (0: not an HTTPError);
\* src (history) is the event that settled the soRead the call awaited
Out(kind, bytes, reason, code, src) ==
    [kind |-> kind, bytes |-> bytes, reason |-> reason, code |-> code, src |-> src]

NoOut == Out("none", <<>>, "null", 0, "none")

\* a promise nobody has created yet
NoProm ==
    [id |-> NoPromise, kind |-> "none", state |-> "none",
     value |-> <<>>, reason |-> "null", src |-> "none"]

\* new Promise(...): the program's next promise, pending
NewProm(p, kind) ==
    [id |-> p.id + 1, kind |-> kind, state |-> "pending",
     value |-> <<>>, reason |-> "null", src |-> "none"]

\* resolve(value) on promise id: only the first resolve/reject call on a
\* promise settles it; src (history) records which call did
Resolve(p, id, value, src) ==
    IF id # NoPromise /\ p.id = id /\ p.state = "pending"
    THEN [p EXCEPT !.state = "resolved", !.value = value, !.src = src]
    ELSE p

\* reject(reason) on promise id
Reject(p, id, reason, src) ==
    IF id # NoPromise /\ p.id = id /\ p.state = "pending"
    THEN [p EXCEPT !.state = "rejected", !.reason = reason, !.src = src]
    ELSE p

\* history: a resolve/reject call through the reader slot on a promise that is
\* not pending any more
Stale(c, p) == c.reader # NoPromise /\ ~(p.id = c.reader /\ p.state = "pending")

\* soInit: the TCPConn and the socket of a connection accepted with pauseOnConnect
ConnInit ==
    /\ conn = [err |-> "null", ended |-> FALSE, reader |-> NoPromise]
    /\ sock = [paused |-> TRUE, ended |-> FALSE, errored |-> FALSE, destroyed |-> FALSE]
    /\ prom = NoProm
    /\ written = <<>>
    /\ emitted = <<>>
    /\ got = <<>>
    /\ obs = [stale |-> FALSE, busy |-> FALSE, dataNoReader |-> FALSE]

\* a data handler that forgets conn.socket.pause()
onDataNoPause(c, s, p, d) ==
    [sock |-> s,
     prom |-> Resolve(p, c.reader, d, "data"),
     conn |-> [c EXCEPT !.reader = NoPromise]]

\* sock.on("data", ...): the state [conn, sock, prom] after the handler
onData(c, s, p, d) ==
    [sock |-> [s EXCEPT !.paused = TRUE],
     prom |-> Resolve(p, c.reader, d, "data"),
     conn |-> [c EXCEPT !.reader = NoPromise]]

\* sock.on("error", ...)
onError(c, s, p, e) ==
    [sock |-> s,
     prom |-> Reject(p, c.reader, e, "error"),
     conn |-> [c EXCEPT !.err = e, !.reader = NoPromise]]

\* sock.on("end", ...)
onEnd(c, s, p) ==
    [sock |-> s,
     prom |-> Resolve(p, c.reader, EOFMark, "end"),
     conn |-> [c EXCEPT !.ended = TRUE, !.reader = NoPromise]]

\* a soRead that does not look at conn.err
soReadNoErrCheck(c, s, p) ==
    LET np == NewProm(p, "read") IN
    [sock |-> [s EXCEPT !.paused = FALSE],
     conn |-> [c EXCEPT !.reader = np.id],
     prom |-> IF c.ended THEN Resolve(np, np.id, EOFMark, "ended") ELSE np]

\* soRead(conn): the executor of the new promise, run inside the call
soRead(c, s, p) ==
    LET np == NewProm(p, "read") IN
    IF c.err # "null"
    THEN [sock |-> s, conn |-> c,
          prom |-> Reject(np, np.id, c.err, "sticky")]
    ELSE [sock |-> [s EXCEPT !.paused = FALSE],
          conn |-> [c EXCEPT !.reader = np.id],
          prom |-> IF c.ended
                   THEN Resolve(np, np.id, EOFMark, "ended")
                   ELSE np]

\* soWrite(conn, data): the executor; wrote says whether socket.write was called
soWrite(c, p, d) ==
    LET np == NewProm(p, "write") IN
    IF c.err # "null"
    THEN [wrote |-> FALSE, prom |-> Reject(np, np.id, c.err, "sticky")]
    ELSE [wrote |-> TRUE, prom |-> np]

(* The transport.  The socket is accepted paused (pauseOnConnect) and emits
   'data' and 'end' only while flowing; 'end' is emitted once and no 'data'
   follows it; 'error' is emitted at most once, at any time before the socket
   is destroyed, and the socket emits nothing after it. *)

\* bounds of the transport: data events per connection, promises per connection
MaxChunks == 4
MaxProm == 7

Errors == {"ECONNRESET", "ETIMEDOUT"}

CanEmit == ~sock.paused /\ ~sock.ended /\ ~sock.errored /\ ~sock.destroyed

DataEvent(Chunks) ==
    /\ CanEmit
    /\ Len(emitted) < MaxChunks
    /\ \E d \in Chunks :
         LET n == onData(conn, sock, prom, d) IN
         /\ conn' = n.conn /\ sock' = n.sock /\ prom' = n.prom
         /\ emitted' = Append(emitted, d)
    /\ obs' = [obs EXCEPT !.stale = @ \/ Stale(conn, prom),
                          !.dataNoReader = @ \/ conn.reader = NoPromise]
    /\ UNCHANGED <<buf, written, got, progVars, bufHist>>

EndEvent ==
    /\ CanEmit
    /\ LET n == onEnd(conn, sock, prom) IN
         /\ conn' = n.conn /\ prom' = n.prom
         /\ sock' = [n.sock EXCEPT !.ended = TRUE]
    /\ obs' = [obs EXCEPT !.stale = @ \/ Stale(conn, prom)]
    /\ UNCHANGED <<buf, written, emitted, got, progVars, bufHist>>

ErrorEvent ==
    /\ ~sock.errored /\ ~sock.destroyed
    /\ \E e \in Errors :
         LET n == onError(conn, sock, prom, e) IN
         /\ conn' = n.conn /\ prom' = n.prom
         /\ sock' = [n.sock EXCEPT !.errored = TRUE]
    /\ obs' = [obs EXCEPT !.stale = @ \/ Stale(conn, prom)]
    /\ UNCHANGED <<buf, written, emitted, got, progVars, bufHist>>

\* the callback of socket.write: the write was flushed, or it failed
WriteCallback ==
    /\ prom.kind = "write" /\ prom.state = "pending"
    /\ \/ prom' = Resolve(prom, prom.id, <<>>, "write")
       \/ prom' = Reject(prom, prom.id, "EPIPE", "write")
    /\ UNCHANGED <<buf, conn, sock, written, emitted, got, obs, progVars, bufHist>>

----------------------------------------------------------------------------
(* The echo server: the line framer and serveClient / newConn *)

\* buf.indexOf(byte), 0-based, -1 when absent
RECURSIVE IndexFrom(_, _, _)
IndexFrom(b, byte, i) ==
    IF i > Len(b) THEN -1
    ELSE IF b[i] = byte THEN i - 1
    ELSE IndexFrom(b, byte, i + 1)

IndexOf(b, byte) == IndexFrom(b, byte, 1)

\* a line framer that leaves the '\n' of the message in the accumulator
cutMessageLineKeepLF(b) ==
    LET idx == IndexOf(Live(b), LF) IN
    IF idx < 0
    THEN [msg |-> <<>>, buf |-> b]
    ELSE [msg |-> Slice(b.data, 0, idx + 1), buf |-> bufPop(b, idx)]

\* cutMessage of the echo server: [msg, buf], msg = <<>> standing for null
\* (a message holds at least its '\n')
cutMessageLine(b) ==
    LET idx == IndexOf(Live(b), LF) IN
    IF idx < 0
    THEN [msg |-> <<>>, buf |-> b]
    ELSE [msg |-> Slice(b.data, 0, idx + 1), buf |-> bufPop(b, idx + 1)]

Quit == <<"q", "u", "i", "t", LF>>
Bye == <<"B", "y", "e", ".", LF>>
EchoPrefix == <<"E", "c", "h", "o", ":", " ">>

LineChunks == {<<"a">>, <<"b", LF>>, <<"c", LF, "d">>, <<"e", LF, "f", LF>>, Quit}

\* newConn's finally: socket.destroy(), after serveClient returned or threw
Finish(how) ==
    /\ pc' = "done"
    /\ out' = how
    /\ sock' = [sock EXCEPT !.destroyed = TRUE]

\* One turn of serveClient's while loop over accumulator b, up to its await:
\* cutMessage, then soRead (no message yet) or soWrite (a reply).
LineTurn(b) ==
    LET cut == cutMessageLine(b) IN
    /\ prom.id < MaxProm
    /\ buf' = cut.buf
    /\ out' = Out("msg", cut.msg, "null", 0, "none")
    /\ \/ /\ cut.msg = <<>>
          /\ LET n == soRead(conn, sock, prom) IN
               conn' = n.conn /\ sock' = n.sock /\ prom' = n.prom
          /\ obs' = [obs EXCEPT !.busy = @ \/ conn.reader # NoPromise]
          /\ pc' = "read"
          /\ UNCHANGED written
       \/ /\ cut.msg # <<>>
          /\ LET reply == IF cut.msg = Quit THEN Bye ELSE EchoPrefix \o cut.msg
                 n == soWrite(conn, prom, reply) IN
               /\ prom' = n.prom
               /\ written' = IF n.wrote THEN Append(written, reply) ELSE written
          /\ pc' = IF cut.msg = Quit THEN "bye" ELSE "echo"
          /\ UNCHANGED <<conn, sock, obs>>

\* serveClient is called: soInit, an empty DynBuf, the first turn
LineStart ==
    /\ pc = "start"
    /\ LineTurn(buf)
    /\ UNCHANGED <<bodyVars, emitted, got, bufHist>>

\* an awaited promise was rejected: serveClient throws, newConn logs and destroys
Thrown ==
    /\ pc \in {"read", "echo", "bye"}
    /\ prom.state = "rejected"
    /\ Finish(Out("threw", <<>>, prom.reason, 0, prom.src))
    /\ UNCHANGED <<buf, conn, prom, written, bodyVars, emitted, got, obs, bufHist>>

\* const data = await soRead(conn); bufPush(buf, data); if (data.length === 0) return
LineRead ==
    /\ pc = "read"
    /\ prom.state = "resolved"
    /\ got' = IF prom.src = "data" THEN Append(got, prom.value) ELSE got
    /\ \/ /\ Len(prom.value) = 0
          /\ buf' = bufPush(buf, prom.value)
          /\ Finish(Out("returned", <<>>, "null", 0, prom.src))
          /\ UNCHANGED <<conn, prom, written, obs>>
       \/ /\ Len(prom.value) # 0
          /\ LineTurn(bufPush(buf, prom.value))
    /\ UNCHANGED <<bodyVars, emitted, bufHist>>

\* await soWrite(conn, reply) of an echo: the next turn
LineEcho ==
    /\ pc = "echo"
    /\ prom.state = "resolved"
    /\ LineTurn(buf)
    /\ UNCHANGED <<bodyVars, emitted, got, bufHist>>

\* await soWrite(conn, "Bye.\n"); socket.destroy(); return
LineBye ==
    /\ pc = "bye"
    /\ prom.state = "resolved"
    /\ Finish(Out("returned", <<>>, "null", 0, prom.src))
    /\ UNCHANGED <<buf, conn, prom, written, bodyVars, emitted, got, obs, bufHist>>

InitLine ==
    /\ buf = EmptyBuf
    /\ BufHistIdle
    /\ ConnInit
    /\ pc = "start" /\ out = NoOut /\ BodyIdle

NextLine ==
    \/ LineStart
    \/ LineRead
    \/ LineEcho
    \/ LineBye
    \/ Thrown
    \/ DataEvent(LineChunks)
    \/ EndEvent
    \/ ErrorEvent
    \/ WriteCallback

SpecLine == InitLine /\ [][NextLine]_vars

\* C1: end-of-stream reaches the reader as an empty chunk.  A soRead that
\* was pending when 'end' fired, and every soRead issued after 'end' with no
\* error recorded, resolves with a zero-length Buffer.
C1_EofIsEmptyChunk ==
    (prom.kind = "read" /\ prom.state = "resolved" /\ prom.src \in {"end", "ended"})
        => Len(prom.value) = 0

\* C5: single-slot continuation.  conn.reader never holds a continuation
\* whose promise is already settled, no resolve/reject is called through the
\* slot on a settled promise (each continuation is settled exactly once), and
\* soRead is never entered while conn.reader is non-null.
C5_SingleSlot ==
    /\ conn.reader # NoPromise => (prom.id = conn.reader /\ prom.state = "pending")
    /\ ~obs.stale
    /\ ~obs.busy

\* C6: transport errors are sticky.  The error event rejects a pending read
\* with its error and clears the slot; from then on conn.err keeps that
\* error, every soRead and soWrite the program issues is rejected at once
\* with it, and none of them resumes the socket, writes to it or stores a
\* continuation.
C6_StickyError ==
    /\ [][(conn.err = "null" /\ conn'.err # "null") =>
            /\ conn'.reader = NoPromise
            /\ (conn.reader = prom.id /\ prom.state = "pending") =>
                  (prom'.state = "rejected" /\ prom'.reason = conn'.err)]_vars
    /\ [][conn.err # "null" =>
            /\ conn'.err = conn.err
            /\ conn'.reader = conn.reader
            /\ sock'.paused = sock.paused
            /\ written' = written
            /\ prom'.id # prom.id =>
                  (prom'.state = "rejected" /\ prom'.reason = conn.err)]_vars

\* C6's case: a soWrite issued after the error event was rejected with the
\* recorded error and wrote nothing
C6_Witness ==
    /\ conn.err \in Errors
    /\ prom.kind = "write" /\ prom.src = "sticky"
    /\ prom.state = "rejected" /\ prom.reason = conn.err
    /\ Len(written) = 1

\* C7: backpressure and ordering.  Whenever the transport can emit data a
\* pending soRead holds the reader slot, so no data event fires while
\* conn.reader is null; and the chunks the loop receives and pushes to the
\* accumulator are the emitted chunks, in order, none dropped or repeated,
\* at most the last one still on its way.
C7_Backpressure ==
    /\ CanEmit => (conn.reader = prom.id /\ prom.kind = "read" /\ prom.state = "pending")
    /\ ~obs.dataNoReader
    /\ \/ emitted = got
       \/ /\ pc = "read" /\ prom.state = "resolved" /\ prom.src = "data"
          /\ emitted = Append(got, prom.value)

\* C7's case: several different chunks went through the slot
C7_Witness ==
    /\ Len(got) >= 3
    /\ got[1] # got[2]
    /\ got = emitted

\* the complete lines of a byte stream, each with its '\n', in order
RECURSIVE LinesOf(_)
LinesOf(s) ==
    LET i == IndexOf(s, LF) IN
    IF i < 0 THEN <<>>
    ELSE <<Slice(s, 0, i + 1)>> \o LinesOf(Slice(s, i + 1, Len(s)))

\* the reply to a line: "Bye.\n" to the control command "quit\n", else the echo
ReplyTo(line) == IF line = Quit THEN Bye ELSE EchoPrefix \o line

C17_EndedTerminal ==
    [][conn.ended =>
          /\ conn'.ended
          /\ conn.reader = NoPromise /\ conn'.reader = NoPromise
          /\ sock'.paused = sock.paused]_vars

\* The echo server configures no maximum line length; C19 is stated for a
\* maximum of LineCeiling bytes, and reads the same for any other.
LineCeiling == 3

\* C19: the line framer's size limit.  The framer signals "incomplete" (the
\* loop goes on to wait for input) only while the unterminated bytes in the
\* accumulator are no more than the maximum; beyond it the framer fails, so
\* the accumulator does not grow without bound while no \n arrives.
C19_LineLimit ==
    (pc = "read" /\ ~conn.ended /\ IndexOf(Live(buf), LF) < 0) =>
        buf.length <= LineCeiling

----------------------------------------------------------------------------
(* The HTTP server: cutMessage, parseHTTPReq, splitLines, validateHeader *)

SP == " "
CRLF == <<CR, LF>>

\* const splitter = "\r\n\r\n"
splitter == <<CR, LF, CR, LF>>

\* const kMaxHeaderLen = 1024 * 8
kMaxHeaderLen == 8192

\* whether pat occurs in b at 0-based index i
MatchAt(b, pat, i) ==
    /\ i + Len(pat) <= Len(b)
    /\ SubSeq(b, i + 1, i + Len(pat)) = pat

\* b.indexOf(pat): the first 0-based index at or after i, -1 when absent
\* (the least index of the set of matches: a header block of kMaxHeaderLen
\* bytes is scanned without recursion)
IndexOfSeqFrom(b, pat, i) ==
    LET hits == {k \in i..(Len(b) - Len(pat)) : MatchAt(b, pat, k)} IN
    IF hits = {} THEN -1
    ELSE CHOOSE k \in hits : \A j \in hits : k <= j

IndexOfSeq(b, pat) == IndexOfSeqFrom(b, pat, 0)

\* str.split(sep) for a non-empty separator: the pieces between its
\* occurrences, a string without the separator giving one piece
RECURSIVE Split(_, _)
Split(str, sep) ==
    LET idx == IndexOfSeq(str, sep) IN
    IF idx < 0 THEN <<str>>
    ELSE <<Slice(str, 0, idx)>> \o Split(Slice(str, idx + Len(sep), Len(str)), sep)

\* arr[k] of a destructuring [a, b, c] = arr, 0-based; <<>> stands for
\* undefined (both are falsy, and so is the empty string)
At(arr, k) == IF k < Len(arr) THEN arr[k + 1] ELSE <<>>

\* splitLines: the lines are views [start, end) of the buffer scanned, one per
\* "\r\n" found by the scan for (i = 0; i < buf.length - 1; i++)
RECURSIVE SplitLinesFrom(_, _, _, _)
SplitLinesFrom(b, i, start, lines) ==
    IF i >= Len(b) - 1 THEN lines
    ELSE IF b[i + 1] = CR /\ b[i + 2] = LF
    THEN SplitLinesFrom(b, i + 2, i + 2, Append(lines, [start |-> start, end |-> i]))
    ELSE SplitLinesFrom(b, i + 1, start, lines)

splitLines(b) == SplitLinesFrom(b, 0, 0, <<>>)

\* the bytes a view shows of the storage it was cut from
ViewOf(data, v) == Slice(data, v.start, v.end)

\* validateHeader: const [key, value] = header.toString().split(": ")
validateHeader(header) ==
    LET kv == Split(header, <<":", SP>>) IN
    At(kv, 0) # <<>> /\ At(kv, 1) # <<>>

\* parseHTTPReq(buf): [code, req]; code 0 when it returns req, else the code
\* of the HTTPError it throws.  The headers of req are views of buf.
parseHTTPReq(b) ==
    LET lines   == splitLines(b)
        first   == IF Len(lines) > 0 THEN ViewOf(b, lines[1]) ELSE <<>>
        tokens  == IF Len(lines) > 0 THEN Split(first, <<SP>>) ELSE <<>>
        method  == At(tokens, 0)
        uri     == At(tokens, 1)
        version == At(tokens, 2)
        headers == SubSeq(lines, 2, Len(lines))
    IN  IF \E i \in 1..Len(headers) : ~validateHeader(ViewOf(b, headers[i]))
        THEN [code |-> 400, req |-> NoReq]
        ELSE IF method = <<>> \/ uri = <<>> \/ version = <<>>
        THEN [code |-> 400, req |-> NoReq]
        ELSE [code |-> 0,
              req  |-> [method |-> method, uri |-> uri, version |-> version,
                        headers |-> headers]]

\* a cutMessage whose ceiling test is >= where the code's is >
cutMessageCeilingAtLeast(b) ==
    LET idx == IndexOfSeq(Live(b), splitter) IN
    IF idx < 0
    THEN IF b.length >= kMaxHeaderLen
         THEN [kind |-> "threw", code |-> 413, req |-> NoReq, buf |-> b]
         ELSE [kind |-> "null", code |-> 0, req |-> NoReq, buf |-> b]
    ELSE LET parsed == parseHTTPReq(Slice(b.data, 0, idx + 4)) IN
         IF parsed.code # 0
         THEN [kind |-> "threw", code |-> parsed.code, req |-> NoReq, buf |-> b]
         ELSE [kind |-> "req", code |-> 0, req |-> parsed.req,
               buf |-> bufPop(b, idx + 1)]

\* cutMessage of the HTTP server: [kind, code, req, buf], kind "null" (not
\* complete), "threw" (HTTPError code) or "req"
cutMessage(b) ==
    LET idx == IndexOfSeq(Live(b), splitter) IN
    IF idx < 0
    THEN IF b.length > kMaxHeaderLen
         THEN [kind |-> "threw", code |-> 413, req |-> NoReq, buf |-> b]
         ELSE [kind |-> "null", code |-> 0, req |-> NoReq, buf |-> b]
    ELSE LET parsed == parseHTTPReq(Slice(b.data, 0, idx + 4)) IN
         IF parsed.code # 0
         THEN [kind |-> "threw", code |-> parsed.code, req |-> NoReq, buf |-> b]
         ELSE [kind |-> "req", code |-> 0, req |-> parsed.req,
               buf |-> bufPop(b, idx + 1)]

(* The framer alone: cutMessage applied to an accumulator that holds a
   request's header block, whole or cut short, and what follows it *)

\* bounds of the framer specification: header lines per request
MaxHeaders == 2

Methods == {<<"G", "E", "T">>, <<"P", "O", "S", "T">>}
Targets == {<<"/">>, <<"/", "e", "c", "h", "o">>}
Versions == {<<"H", "T", "T", "P", "/", "1", ".", "1">>,
             <<"H", "T", "T", "P", "/", "1", ".", "0">>}
HeaderLines == {<<"H", "o", "s", "t", ":", SP, "x">>,
                <<"C", "o", "n", "t", "e", "n", "t", "-", "L", "e", "n", "g", "t", "h", ":", SP, "3">>,
                <<"A", ":", SP, "b">>}
Tails == {<<>>, <<"a", "b", "c">>, <<"G", "E", "T", SP, "/">>}

\* header lists of up to n lines
RECURSIVE HeaderLists(_)
HeaderLists(n) ==
    IF n = 0 THEN {<<>>}
    ELSE LET shorter == HeaderLists(n - 1) IN
         shorter \cup {Append(hs, h) : hs \in shorter, h \in HeaderLines}

RECURSIVE HeaderBytes(_)
HeaderBytes(hs) ==
    IF hs = <<>> THEN <<>> ELSE Head(hs) \o CRLF \o HeaderBytes(Tail(hs))

\* the header block of a request: request line, header lines, blank line
HeaderBlock(g) ==
    g.method \o <<SP>> \o g.target \o <<SP>> \o g.version \o CRLF
        \o HeaderBytes(g.headers) \o CRLF

\* the bytes received: the block and what follows it, or (not whole) the
\* block short of the last two bytes of its terminator
Received(g) ==
    IF g.whole THEN HeaderBlock(g) \o g.tail
    ELSE Slice(HeaderBlock(g), 0, Len(HeaderBlock(g)) - 2)

InitCut ==
    /\ \E m \in Methods, t \in Targets, v \in Versions,
          hs \in HeaderLists(MaxHeaders), tl \in Tails, w \in BOOLEAN :
         /\ given = [method |-> m, target |-> t, version |-> v, headers |-> hs,
                     tail |-> tl, whole |-> w]
         /\ buf = bufPush(EmptyBuf, Received(given))
    /\ msg = NoReq
    /\ remain = 0
    /\ returned = <<>>
    /\ BufHistIdle
    /\ ConnInit
    /\ pc = "cut" /\ out = NoOut

\* const msg = cutMessage(buf)
CutStep ==
    /\ pc = "cut"
    /\ LET r == cutMessage(buf) IN
         /\ buf' = r.buf
         /\ msg' = r.req
         /\ out' = Out(r.kind, <<>>, IF r.kind = "threw" THEN "HTTPError" ELSE "null",
                       r.code, "none")
    /\ pc' = "cutDone"
    /\ UNCHANGED <<remain, given, returned, connVars, bufHist>>

NextCut == CutStep

SpecCut == InitCut /\ [][NextCut]_vars

\* the version number of a protocol version token: "1.1" of "HTTP/1.1"
VersionNumber(v) == Slice(v, 5, Len(v))

\* C2: a well-formed header block parses.  For a request line of three
\* tokens followed by zero or more "key: value" lines and the blank line,
\* cutMessage returns a request without error whose method, target and
\* version are the three tokens (the version as its number, 1.1 for
\* HTTP/1.1) and whose headers are exactly the header lines, in order.
C2_ParsesWellFormed ==
    (pc = "cutDone" /\ given.whole) =>
        /\ out.kind = "req"
        /\ msg.method = given.method
        /\ msg.uri = given.target
        /\ msg.version = VersionNumber(given.version)
        /\ Len(msg.headers) = Len(given.headers)
        /\ \A i \in 1..Len(msg.headers) :
               ViewOf(buf.data, msg.headers[i]) = given.headers[i]

\* C3: cutMessage removes exactly the header block it parsed.  After
\* cutMessage on an accumulator holding a whole header block, the live
\* region is exactly the bytes that followed the block.
C3_PopsHeaderBlock ==
    (pc = "cutDone" /\ given.whole) => Live(buf) = given.tail

----------------------------------------------------------------------------
(* The HTTP server: the length-bounded BodyReader of readerFromConnLength *)

\* read(), from "Consume what we need": result is a view of buf.data taken
\* before bufPop moves the remaining bytes over it, and copied (Buffer.from)
\* only after
Consume(b, rem) ==
    LET consume == Min(b.length, rem)
        after   == bufPop(b, consume)
    IN  [bytes  |-> Slice(after.data, 0, consume),
         remain |-> rem - consume,
         buf    |-> after]

\* bounds of the body reader specification: the declared Content-Length
MaxBodyLen == 5

\* what the accumulator holds when the reader is built, and what then arrives
BodyLeftovers == {<<>>, <<"a", "b">>, <<"a", "b", "c", "x", "y">>}
BodyChunks == {<<"c">>, <<"c", "d", "e">>, <<"d", "e", "G", "E", "T">>}

\* the state of read() after its chunk is cut from accumulator b
BodyReturn(b, src) ==
    LET r == Consume(b, remain) IN
    /\ buf' = r.buf
    /\ remain' = r.remain
    /\ returned' = returned \o r.bytes
    /\ out' = Out("chunk", r.bytes, "null", 0, src)
    /\ pc' = "body"

\* reqBody.read() is called
BodyCall ==
    /\ pc = "body"
    /\ \/ /\ remain <= 0
          /\ out' = Out("chunk", <<>>, "null", 0, "none")
          /\ UNCHANGED <<buf, conn, sock, prom, obs, pc, remain, returned>>
       \/ /\ remain > 0 /\ buf.length <= 0
          /\ prom.id < MaxProm
          /\ LET n == soRead(conn, sock, prom) IN
               conn' = n.conn /\ sock' = n.sock /\ prom' = n.prom
          /\ obs' = [obs EXCEPT !.busy = @ \/ conn.reader # NoPromise]
          /\ pc' = "bodyRead"
          /\ UNCHANGED <<buf, out, remain, returned>>
       \/ /\ remain > 0 /\ buf.length > 0
          /\ BodyReturn(buf, "none")
          /\ UNCHANGED <<conn, sock, prom, obs>>
    /\ UNCHANGED <<written, msg, given, emitted, got, bufHist>>

\* read() after const data = await soRead(conn)
BodyRead ==
    /\ pc = "bodyRead"
    /\ prom.state = "resolved"
    /\ got' = IF prom.src = "data" THEN Append(got, prom.value) ELSE got
    /\ \/ /\ Len(prom.value) = 0
          /\ buf' = bufPush(buf, prom.value)
          /\ out' = Out("threw", <<>>, "Unexpected EOF in request body", 400, prom.src)
          /\ pc' = "bodyDone"
          /\ UNCHANGED <<remain, returned>>
       \/ /\ Len(prom.value) # 0
          /\ BodyReturn(bufPush(buf, prom.value), prom.src)
    /\ UNCHANGED <<conn, sock, prom, written, msg, given, emitted, obs, bufHist>>

\* read() after await soRead(conn) rejected
BodyThrown ==
    /\ pc = "bodyRead"
    /\ prom.state = "rejected"
    /\ out' = Out("threw", <<>>, prom.reason, 0, prom.src)
    /\ pc' = "bodyDone"
    /\ UNCHANGED <<buf, msg, remain, given, returned, connVars, bufHist>>

\* readerFromConnLength(conn, buf, n) over an accumulator holding pre
InitBody ==
    /\ \E n \in 0..MaxBodyLen, pre \in BodyLeftovers :
         /\ given = [n |-> n, pre |-> pre]
         /\ remain = n
         /\ buf = bufPush(EmptyBuf, pre)
    /\ returned = <<>>
    /\ msg = NoReq
    /\ BufHistIdle
    /\ ConnInit
    /\ pc = "body" /\ out = NoOut

NextBody ==
    \/ BodyCall
    \/ BodyRead
    \/ BodyThrown
    \/ DataEvent(BodyChunks)
    \/ EndEvent
    \/ ErrorEvent

SpecBody == InitBody /\ [][NextBody]_vars

\* the bytes the reader was given: the accumulator, then the data events
BodyStream == given.pre \o Flatten(emitted)

\* the bytes that reached the accumulator so far
BodyArrived == given.pre \o Flatten(got)

\* C4: the length-bounded reader.  The non-empty chunks returned so far,
\* concatenated, are a prefix of the first N bytes of the accumulator
\* followed by the connection's chunks, N - remain bytes long (all N once
\* remain is 0); a read that finds bytes consumes min(available, remaining);
\* what arrived beyond the consumed bytes stays in the accumulator; and with
\* remain = 0 a read returns an empty chunk.
C4_BodyReaderExact ==
    /\ Len(returned) = given.n - remain
    /\ returned = SubSeq(BodyStream, 1, Len(returned))
    /\ pc = "body" => Live(buf) = SubSeq(BodyArrived, Len(returned) + 1, Len(BodyArrived))
    /\ (pc = "body" /\ out.kind = "chunk" /\ remain > 0) => buf.length = 0
    /\ (out.kind = "chunk" /\ out.bytes = <<>>) => remain = 0

\* C10: peer close inside a body.  A read() whose soRead (issued with
\* remain > 0 and an empty accumulator) was settled by end-of-stream fails
\* with HTTPError 400 and returns no chunk.
C10_UnexpectedEof ==
    (pc \in {"body", "bodyDone"} /\ out.src \in {"end", "ended"})
        => (out.kind = "threw" /\ out.code = 400)

----------------------------------------------------------------------------
(* The HTTP server: fieldGet, parseInt and readerFromReq *)

ContentLength == <<"C", "o", "n", "t", "e", "n", "t", "-", "L", "e", "n", "g", "t", "h">>
TransferEncoding == <<"T", "r", "a", "n", "s", "f", "e", "r", "-",
                      "E", "n", "c", "o", "d", "i", "n", "g">>
Chunked == <<"c", "h", "u", "n", "k", "e", "d">>
GET == <<"G", "E", "T">>
HEAD == <<"H", "E", "A", "D">>
POST == <<"P", "O", "S", "T">>

\* fieldGet(headers, field): [found, value], found FALSE standing for null;
\* the headers are views of the storage data
RECURSIVE fieldGet(_, _, _)
fieldGet(data, headers, field) ==
    IF headers = <<>> THEN [found |-> FALSE, value |-> <<>>]
    ELSE LET kv == Split(ViewOf(data, Head(headers)), <<":", SP>>) IN
         IF At(kv, 0) = field
         THEN [found |-> TRUE, value |-> At(kv, 1)]
         ELSE fieldGet(data, Tail(headers), field)

DecDigits == <<"0", "1", "2", "3", "4", "5", "6", "7", "8", "9">>
HexLower == <<"a", "b", "c", "d", "e", "f">>
HexUpper == <<"A", "B", "C", "D", "E", "F">>

\* the value of character c as a digit of the radix, -1 when it is none
DigitOf(c, radix) ==
    LET v == IF \E k \in 1..10 : DecDigits[k] = c
             THEN (CHOOSE k \in 1..10 : DecDigits[k] = c) - 1
             ELSE IF \E k \in 1..6 : HexLower[k] = c
             THEN (CHOOSE k \in 1..6 : HexLower[k] = c) + 9
             ELSE IF \E k \in 1..6 : HexUpper[k] = c
             THEN (CHOOSE k \in 1..6 : HexUpper[k] = c) + 9
             ELSE -1
    IN  IF v < radix THEN v ELSE -1

\* the string without its leading white space
RECURSIVE TrimStart(_)
TrimStart(s) ==
    IF s # <<>> /\ Head(s) \in {SP, TAB, CR, LF} THEN TrimStart(Tail(s)) ELSE s

\* the longest prefix of digits of s: [count, value], value starting from acc
RECURSIVE DigitsOf(_, _, _, _)
DigitsOf(s, radix, count, acc) ==
    IF s = <<>> \/ DigitOf(Head(s), radix) < 0
    THEN [count |-> count, value |-> acc]
    ELSE DigitsOf(Tail(s), radix, count + 1, acc * radix + DigitOf(Head(s), radix))

\* parseInt(string) with no radix given: [nan, n].  White space is skipped,
\* then an optional sign, then 0x or 0X selects radix 16; the longest prefix
\* of digits of what follows is the number, NaN when there is no digit.
parseInt(str) ==
    LET s0     == TrimStart(str)
        signed == s0 # <<>> /\ Head(s0) \in {"+", "-"}
        minus  == s0 # <<>> /\ Head(s0) = "-"
        s1     == IF signed THEN Tail(s0) ELSE s0
        hex    == Len(s1) >= 2 /\ s1[1] = "0" /\ s1[2] \in {"x", "X"}
        s2     == IF hex THEN Tail(Tail(s1)) ELSE s1
        ds     == DigitsOf(s2, IF hex THEN 16 ELSE 10, 0, 0)
    IN  IF ds.count = 0 THEN [nan |-> TRUE, n |-> 0]
        ELSE [nan |-> FALSE, n |-> IF minus THEN 0 - ds.value ELSE ds.value]

\* a readerFromReq that allows a body with every method
readerFromReqAnyMethod(b, req) ==
    LET contentLen == fieldGet(b.data, req.headers, ContentLength)
        parsed     == parseInt(contentLen.value)
        bodyLen    == IF contentLen.found THEN parsed.n ELSE -1
        chunked    == fieldGet(b.data, req.headers, TransferEncoding)
                          = [found |-> TRUE, value |-> Chunked]
    IN  IF contentLen.found /\ parsed.nan
        THEN [kind |-> "threw", code |-> 400, remain |-> 0]
        ELSE IF bodyLen >= 0
        THEN [kind |-> "reader", code |-> 0, remain |-> bodyLen]
        ELSE [kind |-> "threw", code |-> 501, remain |-> 0]

\* readerFromReq(conn, buf, req): [kind, code, remain]; kind "reader" with
\* the remain of the readerFromConnLength it returns, or "threw" with the
\* code of its HTTPError
readerFromReq(b, req) ==
    LET contentLen  == fieldGet(b.data, req.headers, ContentLength)
        parsed      == parseInt(contentLen.value)
        bodyLen     == IF contentLen.found THEN parsed.n ELSE -1
        bodyAllowed == ~(req.method = GET \/ req.method = HEAD)
        chunked     == fieldGet(b.data, req.headers, TransferEncoding)
                           = [found |-> TRUE, value |-> Chunked]
        len         == IF bodyAllowed THEN bodyLen ELSE 0
    IN  IF contentLen.found /\ parsed.nan
        THEN [kind |-> "threw", code |-> 400, remain |-> 0]
        ELSE IF ~bodyAllowed /\ (bodyLen > 0 \/ chunked)
        THEN [kind |-> "threw", code |-> 400, remain |-> 0]
        ELSE IF len >= 0
        THEN [kind |-> "reader", code |-> 0, remain |-> len]
        ELSE [kind |-> "threw", code |-> 501, remain |-> 0]

\* C20: the request cutMessage returns is independent of the accumulator.
\* After cutMessage (its bufPop included) on an accumulator holding a whole
\* header block and whatever follows it, the request's header lines read
\* as the header lines received, and a Content-Length looked up in them
\* with fieldGet has the value received.
C20_RequestIsCopy ==
    (pc = "cutDone" /\ given.whole) =>
        /\ Len(msg.headers) = Len(given.headers)
        /\ \A i \in 1..Len(given.headers) :
               ViewOf(buf.data, msg.headers[i]) = given.headers[i]
        /\ (\E i \in 1..Len(given.headers) :
               given.headers[i] = ContentLength \o <<":", SP, "3">>) =>
              fieldGet(buf.data, msg.headers, ContentLength)
                  = [found |-> TRUE, value |-> <<"3">>]

(* readerFromReq alone: applied to a request whose header Buffers show the
   header lines drawn *)

\* the Content-Length values drawn, each with the number parseInt gives for
\* it in JavaScript (nan: NaN)
LengthValues ==
    {[text |-> <<"0">>,                nan |-> FALSE, num |-> 0],
     [text |-> <<"3">>,                nan |-> FALSE, num |-> 3],
     [text |-> <<"1", "2">>,           nan |-> FALSE, num |-> 12],
     [text |-> <<"-", "5">>,           nan |-> FALSE, num |-> -5],
     [text |-> <<"3", "a", "b">>,      nan |-> FALSE, num |-> 3],
     [text |-> <<SP, "7">>,            nan |-> FALSE, num |-> 7],
     [text |-> <<"0", "x", "1", "0">>, nan |-> FALSE, num |-> 16],
     [text |-> <<"a", "b", "c">>,      nan |-> TRUE,  num |-> 0]}

\* the header fields drawn: name, value and, for a Content-Length, its number
ReqFields ==
    {[name |-> ContentLength, value |-> v.text, nan |-> v.nan, num |-> v.num] :
        v \in LengthValues}
    \cup {[name |-> TransferEncoding, value |-> Chunked, nan |-> TRUE, num |-> 0],
          [name |-> <<"H", "o", "s", "t">>, value |-> <<"x">>, nan |-> TRUE, num |-> 0]}

\* lists of up to n header fields
RECURSIVE FieldLists(_)
FieldLists(n) ==
    IF n = 0 THEN {<<>>}
    ELSE LET shorter == FieldLists(n - 1) IN
         shorter \cup {Append(fs, f) : fs \in shorter, f \in ReqFields}

\* the header lines of a list of fields, each "name: value\r\n"
RECURSIVE FieldBytes(_)
FieldBytes(fs) ==
    IF fs = <<>> THEN <<>>
    ELSE Head(fs).name \o <<":", SP>> \o Head(fs).value \o CRLF \o FieldBytes(Tail(fs))

InitReq ==
    /\ \E m \in {GET, HEAD, POST}, fs \in FieldLists(MaxHeaders) :
         /\ given = [method |-> m, fields |-> fs]
         /\ buf = bufPush(EmptyBuf, FieldBytes(fs))
         /\ msg = [method |-> m, uri |-> <<"/">>,
                   version |-> <<"H", "T", "T", "P", "/", "1", ".", "1">>,
                   headers |-> splitLines(FieldBytes(fs))]
    /\ remain = 0
    /\ returned = <<>>
    /\ BufHistIdle
    /\ ConnInit
    /\ pc = "req" /\ out = NoOut

\* const reqBody = readerFromReq(conn, buf, msg)
ReqStep ==
    /\ pc = "req"
    /\ LET r == readerFromReq(buf, msg) IN
         /\ remain' = r.remain
         /\ out' = Out(r.kind, <<>>, IF r.kind = "threw" THEN "HTTPError" ELSE "null",
                       r.code, "none")
    /\ pc' = "reqDone"
    /\ UNCHANGED <<buf, msg, given, returned, connVars, bufHist>>

NextReq == ReqStep

SpecReq == InitReq /\ [][NextReq]_vars

\* the fields of the request named name, in order
FieldsNamed(fs, name) == SelectSeq(fs, LAMBDA f : f.name = name)

\* a GET or HEAD request that carries a Content-Length header went through
\* readerFromReq
BodylessWithLength ==
    /\ pc = "reqDone"
    /\ given.method \in {GET, HEAD}
    /\ FieldsNamed(given.fields, ContentLength) # <<>>

\* C16 as stated: a GET or HEAD request that carries a non-empty
\* Content-Length header fails with HTTPError 400 when its body reader is
\* constructed, whatever the Content-Length value, and no reader is returned.
C16_BodylessAlways400 ==
    BodylessWithLength => (out.kind = "threw" /\ out.code = 400)

\* C16 amended: for a GET or HEAD request that carries a Content-Length
\* header, readerFromReq fails with HTTPError 400 when the value of the first
\* Content-Length header is no number (parseInt gives NaN) or a positive
\* number, or when the request is Transfer-Encoding: chunked; when the value
\* is 0 or negative and the request is not chunked it returns a reader of
\* length 0.
C16_BodylessPositive400 ==
    BodylessWithLength =>
        LET cl == Head(FieldsNamed(given.fields, ContentLength))
            te == FieldsNamed(given.fields, TransferEncoding)
        IN  IF cl.nan \/ cl.num > 0 \/ te # <<>>
            THEN out.kind = "threw" /\ out.code = 400
            ELSE out.kind = "reader" /\ remain = 0

\* C16's case: a GET with Content-Length: 3 was refused with 400
C16_Witness ==
    /\ BodylessWithLength
    /\ given.method = GET
    /\ Head(FieldsNamed(given.fields, ContentLength)).num = 3
    /\ FieldsNamed(given.fields, TransferEncoding) = <<>>
    /\ out.kind = "threw" /\ out.code = 400

----------------------------------------------------------------------------
(* The HTTP server: serveClient / newConn, and the response of handleReq *)

\* readerFromMemory(Buffer.from("hello world.\n"))
Hello == <<"h", "e", "l", "l", "o", SP, "w", "o", "r", "l", "d", ".", LF>>

\* headers: [Buffer.from("Server: my_first_http_server")]
ServerHeader ==
    <<"S", "e", "r", "v", "e", "r", ":", SP, "m", "y", "_", "f", "i", "r", "s", "t",
      "_", "h", "t", "t", "p", "_", "s", "e", "r", "v", "e", "r">>

\* "HTTP/1.1 200 OK\r\n"
StatusLine ==
    <<"H", "T", "T", "P", "/", "1", ".", "1", SP, "2", "0", "0", SP, "O", "K">> \o CRLF

\* a non-negative number as a decimal string
RECURSIVE NumText(_)
NumText(n) ==
    IF n < 10 THEN <<DecDigits[n + 1]>>
    ELSE NumText(n \div 10) \o <<DecDigits[(n % 10) + 1]>>

\* headers.join("\r\n")
RECURSIVE Join(_, _)
Join(items, sep) ==
    IF items = <<>> THEN <<>>
    ELSE IF Len(items) = 1 THEN Head(items)
    ELSE Head(items) \o sep \o Join(Tail(items), sep)

\* encodeHTTPRespHeaders(res), after writeHTTPResp pushed "Content-Length: n"
encodeHTTPRespHeaders(headers, bodyLen) ==
    StatusLine
        \o Join(Append(headers, ContentLength \o <<":", SP>> \o NumText(bodyLen)), CRLF)
        \o CRLF \o CRLF

\* what writeHTTPResp writes for the response of handleReq to a request
\* whose target is not /echo: the headers, then the body in one chunk
HelloResponse == <<encodeHTTPRespHeaders(<<ServerHeader>>, Len(Hello)), Hello>>

\* the chunks of the HTTP connection: pieces of header blocks and whole ones
ReqLine11 ==
    <<"G", "E", "T", SP, "/", SP, "H", "T", "T", "P", "/", "1", ".", "1">> \o CRLF
ReqLine10 ==
    <<"G", "E", "T", SP, "/", SP, "H", "T", "T", "P", "/", "1", ".", "0">> \o CRLF
HostLine == <<"H", "o", "s", "t", ":", SP, "x">> \o CRLF
Req11 == ReqLine11 \o HostLine \o CRLF
Req10 == ReqLine10 \o CRLF

\* whole HTTP/1.1 requests: one, and two pipelined
Whole11Chunks == {Req11, Req11 \o Req11}
HttpChunks == {ReqLine11, HostLine, CRLF, Req10} \cup Whole11Chunks

\* One turn of serveClient's while loop over accumulator b, up to its await
\* or its end.  src (history) is the event that settled the read before it.
\* cutMessage throws on every whole header block (C2_ParsesWellFormed is
\* violated by each), so no turn of a run frames a request: the turn that
\* does would go on to the await of handleReq (pc "handle") and from there to
\* writeHTTPResp and the draining of reqBody, which no run reaches.
HttpTurn(b, src) ==
    LET cut == cutMessage(b) IN
    /\ buf' = cut.buf
    /\ msg' = cut.req
    /\ \/ /\ cut.kind = "threw"
          /\ Finish(Out("threw", <<>>, "HTTPError", cut.code, src))
          /\ UNCHANGED <<conn, prom, written, obs, remain>>
       \/ /\ cut.kind = "null"
          /\ prom.id < MaxProm
          /\ LET n == soRead(conn, sock, prom) IN
               conn' = n.conn /\ sock' = n.sock /\ prom' = n.prom
          /\ obs' = [obs EXCEPT !.busy = @ \/ conn.reader # NoPromise]
          /\ pc' = "read"
          /\ out' = Out("null", <<>>, "null", 0, src)
          /\ UNCHANGED <<written, remain>>
       \/ /\ cut.kind = "req"
          /\ LET reqBody == readerFromReq(cut.buf, cut.req) IN
               \/ /\ reqBody.kind = "threw"
                  /\ Finish(Out("threw", <<>>, "HTTPError", reqBody.code, src))
                  /\ UNCHANGED remain
               \/ /\ reqBody.kind = "reader"
                  /\ remain' = reqBody.remain
                  /\ pc' = "handle"
                  /\ out' = Out("req", <<>>, "null", 0, src)
                  /\ UNCHANGED sock
          /\ UNCHANGED <<conn, prom, written, obs>>

\* serveClient is called: soInit, an empty DynBuf, the first turn
HttpStart ==
    /\ pc = "start"
    /\ HttpTurn(buf, "none")
    /\ UNCHANGED <<given, returned, emitted, got, bufHist>>

\* const data = await soRead(conn); bufPush(buf, data); the two tests of
\* data.length === 0; continue
HttpRead ==
    /\ pc = "read"
    /\ prom.state = "resolved"
    /\ got' = IF prom.src = "data" THEN Append(got, prom.value) ELSE got
    /\ LET pushedBuf == bufPush(buf, prom.value) IN
         \/ /\ Len(prom.value) = 0
            /\ buf' = pushedBuf
            /\ IF pushedBuf.length = 0
               THEN Finish(Out("returned", <<>>, "null", 0, prom.src))
               ELSE Finish(Out("threw", <<>>, "Unexpected EOF", 400, prom.src))
            /\ UNCHANGED <<conn, prom, written, obs, msg, remain>>
         \/ /\ Len(prom.value) # 0
            /\ HttpTurn(pushedBuf, prom.src)
    /\ UNCHANGED <<given, returned, emitted, bufHist>>

InitHttp ==
    /\ buf = EmptyBuf
    /\ BufHistIdle
    /\ ConnInit
    /\ pc = "start" /\ out = NoOut /\ BodyIdle

\* no soWrite is reached, so the socket's write callback never runs
NextHttp ==
    \/ HttpStart
    \/ HttpRead
    \/ Thrown
    \/ DataEvent(HttpChunks)
    \/ EndEvent
    \/ ErrorEvent

SpecHttp == InitHttp /\ [][NextHttp]_vars

\* whether b starts with the bytes p
StartsWith(b, p) == Len(p) <= Len(b) /\ SubSeq(b, 1, Len(p)) = p

\* the number of "\r\n\r\n" in b from 0-based index i on, those inside one
\* already counted left out: the number of whole header blocks
RECURSIVE BlocksFrom(_, _)
BlocksFrom(b, i) ==
    LET idx == IndexOfSeqFrom(b, splitter, i) IN
    IF idx < 0 THEN 0 ELSE 1 + BlocksFrom(b, idx + Len(splitter))

\* n responses to requests whose target is not /echo
RECURSIVE Responses(_)
Responses(n) == IF n = 0 THEN <<>> ELSE HelloResponse \o Responses(n - 1)

\* the connection is past serving: serveClient returned or threw, with no
\* transport error and no failed write
ServedClean == pc = "done" /\ conn.err = "null" /\ out.reason # "EPIPE"

\* C11: a connection whose request declares HTTP/1.0 is closed after exactly
\* one response.  Once the connection that received "GET / HTTP/1.0" and the
\* blank line is done (no transport error), serveClient has returned, the
\* socket is destroyed and what was written is the one response to it.
C11_CloseAfterOne10 ==
    (ServedClean /\ got # <<>> /\ StartsWith(Flatten(got), Req10)) =>
        /\ out.kind = "returned"
        /\ sock.destroyed
        /\ written = HelloResponse

\* C12: on an HTTP/1.1 connection the next request is framed only after the
\* response to the current one is written and its body drained, so the
\* responses are written in the order of the requests.  Whenever the loop
\* waits for more input or is done (no transport error), what was written is
\* one whole response per whole request received, one after the other, and
\* no body is left to read.
C12_AnswersInOrder ==
    (/\ pc \in {"read", "done"}
     /\ conn.err = "null" /\ out.reason # "EPIPE"
     /\ \A i \in 1..Len(got) : got[i] \in Whole11Chunks) =>
        /\ written = Responses(BlocksFrom(Flatten(got), 0))
        /\ remain = 0

\* the decimal digits of an HTTPError's code appear in buffer b
CarriesCode(b, code) == IndexOfSeq(b, NumText(code)) >= 0

\* C13: an HTTPError (400, 413 or 501) raised in the loop while the
\* transport is not errored is answered with an error response that carries
\* its status code, and the connection is destroyed on every error path.
C13_ErrorResponse ==
    (pc = "done" /\ out.kind = "threw") =>
        /\ sock.destroyed
        /\ (out.code \in {400, 413, 501} /\ conn.err = "null") =>
              /\ written # <<>>
              /\ CarriesCode(written[Len(written)], out.code)

\* C15: lifecycle on peer close.  No soRead is issued once end-of-stream was
\* handed to the loop; and when end-of-stream reaches a loop that has
\* received nothing (its accumulator is empty), serveClient returns normally,
\* the socket is destroyed and the accumulator is still empty.
C15_ReturnsOnPeerClose ==
    /\ prom.src # "ended"
    /\ (conn.ended /\ conn.err = "null" /\ got = <<>> /\ prom.state # "pending") =>
          /\ pc = "done" => (out.kind = "returned" /\ sock.destroyed)
          /\ buf.length = 0

(* The same loop fed header bytes that never hold a blank line, in chunks
   large enough to pass the ceiling of kMaxHeaderLen bytes *)

\* half the ceiling, one byte less, and a single byte
HalfCeiling == [i \in 1..(kMaxHeaderLen \div 2) |-> "a"]
BigChunks == {HalfCeiling, Tail(HalfCeiling), <<"a">>}

NextCeil ==
    \/ HttpStart
    \/ HttpRead
    \/ Thrown
    \/ DataEvent(BigChunks)
    \/ EndEvent
    \/ ErrorEvent

SpecCeil == InitHttp /\ [][NextCeil]_vars

\* the length of the chunk the loop pushed last: a data chunk or the
\* end-of-stream marker
LastPushLen ==
    IF out.src \in {"end", "ended"} THEN Len(EOFMark)
    ELSE IF got = <<>> THEN 0
    ELSE Len(got[Len(got)])

\* C18: the header-size ceiling.  With no \r\n\r\n in the accumulator,
\* cutMessage returns null (the loop goes on to read) only with at most 8192
\* bytes accumulated and fails with HTTPError 413 only with more than 8192;
\* either way it leaves the accumulator as it was, holding all the bytes
\* received; so the accumulator never holds more than 8192 bytes plus the
\* chunk just read.
C18_HeaderCeiling ==
    /\ IndexOfSeq(Live(buf), splitter) < 0
    /\ pc = "read" => (out.kind = "null" /\ buf.length <= kMaxHeaderLen)
    /\ (pc = "done" /\ out.reason = "HTTPError") =>
          (out.code = 413 /\ buf.length > kMaxHeaderLen)
    /\ (pc \in {"read", "done"} /\ ~conn.ended) => Live(buf) = Flatten(got)
    /\ buf.length <= kMaxHeaderLen + LastPushLen

\* C18's case: exactly 8192 bytes were incomplete, one more byte was too many
C18_Witness ==
    /\ got = <<HalfCeiling, HalfCeiling, <<"a">> >>
    /\ pc = "done"
    /\ out.kind = "threw" /\ out.code = 413
    /\ buf.length = kMaxHeaderLen + 1

----------------------------------------------------------------------------
(* The accumulator alone: any sequence of pushes and in-range pops *)

\* bounds of the accumulator specification
MaxOps == 3

Letters == <<"a", "b", "c", "d", "e", "f", "g", "h", "i", "j">>

\* a chunk of n distinguishable bytes starting at letter k
Text(k, n) == [i \in 1..n |-> Letters[((k + i - 2) % Len(Letters)) + 1]]

BufChunks == {Text(1, 0), Text(1, 1), Text(4, 31), Text(7, 40)}

InitBuf ==
    /\ buf = EmptyBuf
    /\ BufHistIdle
    /\ ConnInit
    /\ pc = "buf" /\ out = NoOut /\ BodyIdle

BufPushStep ==
    /\ lastOp.ops < MaxOps
    /\ \E d \in BufChunks :
         /\ buf' = bufPush(buf, d)
         /\ pushed' = pushed \o d
         /\ lastOp' = [op |-> "push", n |-> Len(d), ops |-> lastOp.ops + 1]
    /\ UNCHANGED <<popped, connVars, progVars>>

BufPopStep ==
    /\ lastOp.ops < MaxOps
    /\ \E n \in 0..buf.length :
         /\ buf' = bufPop(buf, n)
         /\ popped' = popped + n
         /\ lastOp' = [op |-> "pop", n |-> n, ops |-> lastOp.ops + 1]
    /\ UNCHANGED <<pushed, connVars, progVars>>

NextBuf == BufPushStep \/ BufPopStep

SpecBuf == InitBuf /\ [][NextBuf]_vars

\* C8: round-trip content law.  After any sequence of bufPush(bytes) and
\* bufPop(n) with 0 <= n <= length, the live region data[0, length) is the
\* concatenation of everything pushed with the popped prefix removed, also
\* across capacity growth; and bufPop(0) changes nothing at all.
C8_ContentLaw ==
    /\ [](Live(buf) = SubSeq(pushed, popped + 1, Len(pushed)))
    /\ [][lastOp'.op = "pop" /\ lastOp'.n = 0 => buf' = buf]_vars

\* C8's case: the storage has grown twice, bytes were popped and bytes remain
C8_Witness ==
    /\ Len(buf.data) > 2 * MinCap
    /\ popped > 0
    /\ buf.length > 0
    /\ lastOp.op = "pop"

\* cap is the smallest base * 2^k that is >= need
SmallestDoubling(base, need, cap) ==
    \E k \in 0..8 :
        /\ cap = base * (2 ^ k)
        /\ cap >= need
        /\ \A j \in 0..(k - 1) : base * (2 ^ j) < need

\* C9: capacity invariant.  0 <= length <= capacity in every state; no
\* operation decreases the capacity; bufPop leaves the storage's size alone;
\* and when bufPush grows the storage, the new capacity is the smallest
\* max(old capacity, 32) * 2^k that is >= the new length.
C9_Capacity ==
    /\ [](0 <= buf.length /\ buf.length <= Len(buf.data))
    /\ [][/\ Len(buf'.data) >= Len(buf.data)
          /\ (lastOp'.op = "pop" => Len(buf'.data) = Len(buf.data))
          /\ (Len(buf'.data) # Len(buf.data) =>
                /\ lastOp'.op = "push"
                /\ SmallestDoubling(Max(Len(buf.data), MinCap), buf'.length,
                                    Len(buf'.data)))]_vars

\* C9's case: a push grew the storage by more than one doubling
C9_Witness ==
    /\ lastOp.op = "push"
    /\ Len(buf.data) = 4 * MinCap
    /\ buf.length > 2 * MinCap
    /\ buf.length - lastOp.n <= MinCap

====
